---- MODULE Spec2Model ----
(***************************************************************************)
(* Model of the email address validator: the automaton of src/src/fsm.rs   *)
(* (character classes, transition function, accepting states, the          *)
(* iterator that drives it) and the conversion Email::from_str of          *)
(* src/src/lib.rs.  A string is a sequence of Unicode code points.         *)
(***************************************************************************)
EXTENDS Integers, Sequences, FiniteSets, TLC

\* ------------------------------------------------------------------ bounds

\* Longest input string enumerated exhaustively over Alphabet.
MaxLen == 5
\* Largest code point given to the character classes and to transition.
MaxCode == 255
\* Longest input string enumerated when the same string is validated twice.
MaxLenTwice == 4

\* ------------------------------------------------------------------ states

AddrSpec == "AddrSpec"
LocalAtom == "LocalAtom"
LocalQText == "LocalQText"
LocalDot == "LocalDot"
LocalEscape == "LocalEscape"
LocalQString == "LocalQString"
LocalPart == "LocalPart"
DomainAtom == "DomainAtom"
DomainDText == "DomainDText"
DomainDot == "DomainDot"
DomainLiteral == "DomainLiteral"
Error == "Error"

State ==
    { AddrSpec, LocalAtom, LocalQText, LocalDot, LocalEscape, LocalQString,
      LocalPart, DomainAtom, DomainDText, DomainDot, DomainLiteral, Error }

\* ----------------------------------------------------------------- symbols

DQUOTE == 34
DOT == 46
BACKSLASH == 92
AT == 64
OPEN_BRACKET == 91
CLOSE_BRACKET == 93

is_atext_with_dot(c) ==
    \/ c = 33
    \/ (35 <= c /\ c <= 39)
    \/ c = 42
    \/ c = 43
    \/ (45 <= c /\ c <= 47)
    \/ c = 61
    \/ c = 63
    \/ (94 <= c /\ c <= 96)
    \/ c = 123
    \/ c = 125
    \/ c = 126
    \/ (65 <= c /\ c <= 90)
    \/ (97 <= c /\ c <= 122)
    \/ (48 <= c /\ c <= 57)

\* c == '!' || c == '#' || ... || c == '~' || A-Z || a-z || 0-9
is_atext(c) ==
    \/ c = 33
    \/ c = 35
    \/ c = 36
    \/ c = 37
    \/ c = 38
    \/ c = 39
    \/ c = 42
    \/ c = 43
    \/ c = 45
    \/ c = 47
    \/ c = 61
    \/ c = 63
    \/ c = 94
    \/ c = 95
    \/ c = 96
    \/ c = 123
    \/ c = 125
    \/ c = 126
    \/ (65 <= c /\ c <= 90)
    \/ (97 <= c /\ c <= 122)
    \/ (48 <= c /\ c <= 57)

is_qtext_no_at(c) ==
    c = 33 \/ (35 <= c /\ c <= 63) \/ (65 <= c /\ c <= 91) \/ (93 <= c /\ c <= 126)

is_qtext_with_space(c) ==
    (32 <= c /\ c <= 33) \/ (35 <= c /\ c <= 91) \/ (93 <= c /\ c <= 126)

is_qtext(c) ==
    c = 33 \/ (35 <= c /\ c <= 91) \/ (93 <= c /\ c <= 126)

\* The two ranges are joined by && in the source.
is_dtext(c) ==
    (33 <= c /\ c <= 90) /\ (94 <= c /\ c <= 126)

is_escape_unbounded(c) ==
    \/ 33 <= c
    \/ c = 32
    \/ c = 9

is_escape(c) ==
    \/ (33 <= c /\ c <= 126)
    \/ c = 32
    \/ c = 9

\* -------------------------------------------------------------- transition
\* One operator per arm of the match on the current state; in each, the
\* rules are tried in the order of the source and the first match wins.

transition_AddrSpec_domain(c) ==
    IF c = DQUOTE THEN LocalQText
    ELSE IF is_atext(c) THEN DomainAtom
    ELSE Error

transition_AddrSpec(c) ==
    IF c = DQUOTE THEN LocalQText
    ELSE IF is_atext(c) THEN LocalAtom
    ELSE Error

transition_LocalAtom(c) ==
    IF c = DOT THEN LocalDot
    ELSE IF c = AT THEN LocalPart
    ELSE IF is_atext(c) THEN LocalAtom
    ELSE Error

transition_LocalQText(c) ==
    IF c = BACKSLASH THEN LocalEscape
    ELSE IF c = DQUOTE THEN LocalQString
    ELSE IF is_qtext(c) THEN LocalQText
    ELSE Error

transition_LocalDot_domain(c) ==
    IF is_atext(c) THEN DomainAtom
    ELSE Error

transition_LocalDot(c) ==
    IF is_atext(c) THEN LocalAtom
    ELSE Error

transition_LocalEscape(c) ==
    IF is_escape(c) THEN LocalQText
    ELSE Error

transition_LocalQString_atext(c) ==
    IF c = AT THEN LocalPart
    ELSE IF is_atext(c) THEN LocalAtom
    ELSE Error

transition_LocalQString(c) ==
    IF c = AT THEN LocalPart
    ELSE Error

transition_LocalPart_dot(c) ==
    IF c = OPEN_BRACKET THEN DomainDText
    ELSE IF c = DOT THEN DomainDot
    ELSE IF is_atext(c) THEN DomainAtom
    ELSE Error

transition_LocalPart(c) ==
    IF c = OPEN_BRACKET THEN DomainDText
    ELSE IF is_atext(c) THEN DomainAtom
    ELSE Error

transition_DomainAtom_at(c) ==
    IF c = DOT THEN DomainDot
    ELSE IF c = AT THEN LocalPart
    ELSE IF is_atext(c) THEN DomainAtom
    ELSE Error

transition_DomainAtom(c) ==
    IF c = DOT THEN DomainDot
    ELSE IF is_atext(c) THEN DomainAtom
    ELSE Error

transition_DomainDText(c) ==
    IF c = CLOSE_BRACKET THEN DomainLiteral
    ELSE IF is_dtext(c) THEN DomainDText
    ELSE Error

transition_DomainDot(c) ==
    IF is_atext(c) THEN DomainAtom
    ELSE Error

transition_DomainLiteral_open(c) ==
    IF is_atext(c) THEN DomainAtom
    ELSE Error

transition_DomainLiteral(c) ==
    Error

transition_Error_leaky(c) ==
    IF is_atext(c) THEN DomainAtom
    ELSE Error

transition_Error(c) ==
    Error

transition(state, c) ==
    CASE state = AddrSpec -> transition_AddrSpec(c)
      [] state = LocalAtom -> transition_LocalAtom(c)
      [] state = LocalQText -> transition_LocalQText(c)
      [] state = LocalDot -> transition_LocalDot(c)
      [] state = LocalEscape -> transition_LocalEscape(c)
      [] state = LocalQString -> transition_LocalQString(c)
      [] state = LocalPart -> transition_LocalPart(c)
      [] state = DomainAtom -> transition_DomainAtom(c)
      [] state = DomainDText -> transition_DomainDText(c)
      [] state = DomainDot -> transition_DomainDot(c)
      [] state = DomainLiteral -> transition_DomainLiteral(c)
      [] state = Error -> transition_Error(c)

\* A rule of a match arm: its place in the arm and its next state, when c
\* satisfies its guard.
rule(guard, n, to) ==
    IF guard THEN { << n, to >> } ELSE {}

\* The rules of transition's arm for state whose guard c satisfies, the
\* closing wildcard rule (_ => Error) left out.
matching(state, c) ==
    CASE state = AddrSpec ->
             rule(c = DQUOTE, 1, LocalQText) \cup rule(is_atext(c), 2, LocalAtom)
      [] state = LocalAtom ->
             rule(c = DOT, 1, LocalDot) \cup rule(c = AT, 2, LocalPart)
                 \cup rule(is_atext(c), 3, LocalAtom)
      [] state = LocalQText ->
             rule(c = BACKSLASH, 1, LocalEscape) \cup rule(c = DQUOTE, 2, LocalQString)
                 \cup rule(is_qtext(c), 3, LocalQText)
      [] state = LocalDot -> rule(is_atext(c), 1, LocalAtom)
      [] state = LocalEscape -> rule(is_escape(c), 1, LocalQText)
      [] state = LocalQString -> rule(c = AT, 1, LocalPart)
      [] state = LocalPart ->
             rule(c = OPEN_BRACKET, 1, DomainDText) \cup rule(is_atext(c), 2, DomainAtom)
      [] state = DomainAtom ->
             rule(c = DOT, 1, DomainDot) \cup rule(is_atext(c), 2, DomainAtom)
      [] state = DomainDText ->
             rule(c = CLOSE_BRACKET, 1, DomainLiteral) \cup rule(is_dtext(c), 2, DomainDText)
      [] state = DomainDot -> rule(is_atext(c), 1, DomainAtom)
      [] state = DomainLiteral -> {}
      [] state = Error -> {}

is_final_with_dot(state) ==
    state \in { DomainLiteral, DomainAtom, DomainDot }

is_final(state) ==
    state \in { DomainLiteral, DomainAtom }

start == AddrSpec

\* ------------------------------------------------------------------ inputs

\* The symbols the exhaustive inputs are built from: one of each literal the
\* transition rules name, and 'a', which is atext, qtext and in 94..126.
Alphabet == { DQUOTE, DOT, AT, OPEN_BRACKET, BACKSLASH, CLOSE_BRACKET, 97 }

\* The strings of the crate documentation and of the scenarios.
Ex_someone == <<115, 111, 109, 101, 111, 110, 101, 64, 101, 120, 97, 109, 112, 108, 101, 46, 99, 111, 109>>
Ex_plain == <<112, 108, 97, 105, 110, 97, 100, 100, 114, 101, 115, 115>>
Ex_literal == <<97, 64, 91, 49, 57, 50, 46, 49, 54, 56, 46, 49, 46, 49, 93>>
Ex_quoted == <<34, 113, 117, 111, 116, 101, 100, 34, 64, 101, 120, 97, 109, 112, 108, 101, 46, 99, 111, 109>>
Ex_trailing_space == <<97, 64, 98, 46, 99, 111, 109, 32, 101, 120, 116, 114, 97>>
Ex_literal_extra == <<97, 64, 91, 49, 93, 101, 120, 116, 114, 97>>

Examples ==
    { Ex_someone, Ex_plain, Ex_literal, Ex_quoted, Ex_trailing_space, Ex_literal_extra }

\* Further strings, for the symbols Alphabet leaves out (space, tab) and for
\* the quoted forms longer than MaxLen:
\* "\ "@a   " "@a   "\<tab>"@a   "\""@a   "a"a@a   a b@a
Pr_escaped_space == <<34, 92, 32, 34, 64, 97>>
Pr_quoted_space == <<34, 32, 34, 64, 97>>
Pr_escaped_tab == <<34, 92, 9, 34, 64, 97>>
Pr_escaped_quote == <<34, 92, 34, 34, 64, 97>>
Pr_after_quote == <<34, 97, 34, 97, 64, 97>>
Pr_atom_space == <<97, 32, 98, 64, 97>>

Probes ==
    { Pr_escaped_space, Pr_quoted_space, Pr_escaped_tab, Pr_escaped_quote,
      Pr_after_quote, Pr_atom_space }

Inputs ==
    UNION { [1..n -> Alphabet] : n \in 0..MaxLen } \cup Examples \cup Probes

\* ------------------------------------------------------------------- state

VARIABLES
    input,      \* Machine.input / the s of from_str
    pos,        \* number of symbols MachineIterator.input (Chars) has given out
    state,      \* MachineIterator.state
    yielded,    \* the Some(state) values next() has returned so far, in order
    ret,        \* what the latest call of next() returned
    pc,         \* where from_str stands
    result,     \* what from_str returned
    local,      \* Email.local
    domain,     \* Email.domain
    tstate,     \* state argument of a single call of transition
    tsym,       \* symbol argument of that call, and of the character classes
    tclass,     \* the four character classes of tsym
    tout,       \* what that call of transition returned
    first       \* what an earlier from_str of the same string returned and
                \* went through, <<>> when there was none

vars ==
    << input, pos, state, yielded, ret, pc, result, local, domain,
       tstate, tsym, tclass, tout, first >>

tvars == << tstate, tsym, tclass, tout >>

NoState == "none"
None == "None"
Unset == "unset"
NoClasses == { "unset" }

split_once_last(s, c) ==
    IF \E i \in 1..Len(s) : s[i] = c
    THEN LET i == CHOOSE k \in 1..Len(s) :
                     s[k] = c /\ \A j \in (k + 1)..Len(s) : s[j] # c
         IN  [some |-> TRUE, one |-> SubSeq(s, 1, i - 1), two |-> SubSeq(s, i + 1, Len(s))]
    ELSE [some |-> FALSE, one |-> <<>>, two |-> <<>>]

split_once_keeps_at(s, c) ==
    IF \E i \in 1..Len(s) : s[i] = c
    THEN LET i == CHOOSE k \in 1..Len(s) :
                     s[k] = c /\ \A j \in 1..(k - 1) : s[j] # c
         IN  [some |-> TRUE, one |-> SubSeq(s, 1, i - 1), two |-> SubSeq(s, i, Len(s))]
    ELSE [some |-> FALSE, one |-> <<>>, two |-> <<>>]

\* str::split_once(c): the text before and after the first c, or None.
split_once(s, c) ==
    IF \E i \in 1..Len(s) : s[i] = c
    THEN LET i == CHOOSE k \in 1..Len(s) :
                     s[k] = c /\ \A j \in 1..(k - 1) : s[j] # c
         IN  [some |-> TRUE, one |-> SubSeq(s, 1, i - 1), two |-> SubSeq(s, i + 1, Len(s))]
    ELSE [some |-> FALSE, one |-> <<>>, two |-> <<>>]

\* Iterator::last over the states the iterator yielded.
last(ys) ==
    IF ys = <<>> THEN None ELSE ys[Len(ys)]

\* Machine::new(s), for every input string.
Init ==
    /\ input \in Inputs
    /\ pos = 0
    /\ state = NoState
    /\ yielded = <<>>
    /\ ret = Unset
    /\ pc = "new"
    /\ result = Unset
    /\ local = <<>>
    /\ domain = <<>>
    /\ tstate = NoState
    /\ tsym = 0
    /\ tclass = NoClasses
    /\ tout = Unset
    /\ first = <<>>

into_iter_keeps_state ==
    /\ pc = "new"
    /\ state' = IF state = NoState THEN AddrSpec ELSE state
    /\ pos' = 0
    /\ pc' = "iter"
    /\ UNCHANGED << input, yielded, ret, result, local, domain, tvars, first >>

\* Machine::into_iter
into_iter ==
    /\ pc = "new"
    /\ state' = AddrSpec
    /\ pos' = 0
    /\ pc' = "iter"
    /\ UNCHANGED << input, yielded, ret, result, local, domain, tvars, first >>

MachineIterator_next_stale ==
    /\ pc \in { "iter", "exhausted" }
    /\ IF pos < Len(input)
       THEN /\ state' = state
            /\ pos' = pos + 1
            /\ yielded' = Append(yielded, transition(state, input[pos + 1]))
            /\ ret' = transition(state, input[pos + 1])
            /\ pc' = "iter"
       ELSE /\ ret' = None
            /\ pc' = "exhausted"
            /\ UNCHANGED << state, pos, yielded >>
    /\ UNCHANGED << input, result, local, domain, tvars, first >>

\* MachineIterator::next: None once the input is exhausted, else the state
\* after one more symbol.
MachineIterator_next ==
    /\ pc \in { "iter", "exhausted" }
    /\ IF pos < Len(input)
       THEN /\ state' = transition(state, input[pos + 1])
            /\ pos' = pos + 1
            /\ yielded' = Append(yielded, state')
            /\ ret' = state'
            /\ pc' = "iter"
       ELSE /\ ret' = None
            /\ pc' = "exhausted"
            /\ UNCHANGED << state, pos, yielded >>
    /\ UNCHANGED << input, result, local, domain, tvars, first >>

from_str_value_empty_invalid(s, l) ==
    IF l = None
    THEN [result |-> "InvalidEmail", local |-> <<>>, domain |-> <<>>]
    ELSE IF is_final(l)
    THEN LET p == split_once(s, AT)
         IN  IF p.some
             THEN [result |-> "Ok", local |-> p.one, domain |-> p.two]
             ELSE [result |-> "panic", local |-> <<>>, domain |-> <<>>]
    ELSE [result |-> "InvalidEmail", local |-> <<>>, domain |-> <<>>]

\* The value of from_str(s) once last() has returned l: EmptyEmail on None,
\* InvalidEmail on a state that is not final, else the two sides of the
\* first '@'; unwrap() of a None panics.
from_str_value(s, l) ==
    IF l = None
    THEN [result |-> "EmptyEmail", local |-> <<>>, domain |-> <<>>]
    ELSE IF is_final(l)
    THEN LET p == split_once(s, AT)
         IN  IF p.some
             THEN [result |-> "Ok", local |-> p.one, domain |-> p.two]
             ELSE [result |-> "panic", local |-> <<>>, domain |-> <<>>]
    ELSE [result |-> "InvalidEmail", local |-> <<>>, domain |-> <<>>]

\* from_str after last() has drained the iterator.
from_str ==
    /\ pc = "exhausted"
    /\ LET v == from_str_value(input, last(yielded))
       IN  /\ result' = v.result
           /\ local' = v.local
           /\ domain' = v.domain
    /\ pc' = "done"
    /\ UNCHANGED << input, pos, state, yielded, ret, tvars, first >>

Next ==
    \/ into_iter
    \/ MachineIterator_next
    \/ from_str

Spec == Init /\ [][Next]_vars

\* ------------------------------------------- the same string validated twice

InputsTwice ==
    UNION { [1..n -> Alphabet] : n \in 0..MaxLenTwice } \cup Examples \cup Probes

InitTwice ==
    /\ input \in InputsTwice
    /\ pos = 0
    /\ state = NoState
    /\ yielded = <<>>
    /\ ret = Unset
    /\ pc = "new"
    /\ result = Unset
    /\ local = <<>>
    /\ domain = <<>>
    /\ tstate = NoState
    /\ tsym = 0
    /\ tclass = NoClasses
    /\ tout = Unset
    /\ first = <<>>

\* A second from_str of the same string, after the first has returned: what
\* the first returned and yielded is kept aside, and Machine::new(s) starts a
\* validation of its own.  The iterator of the first call is gone; what it
\* left in state and pos is whatever it was, until into_iter sets both.
from_str_again ==
    /\ pc = "done"
    /\ first = <<>>
    /\ first' = << result, local, domain, yielded >>
    /\ pc' = "new"
    /\ yielded' = <<>>
    /\ ret' = Unset
    /\ result' = Unset
    /\ local' = <<>>
    /\ domain' = <<>>
    /\ UNCHANGED << input, pos, state, tvars >>

NextTwice ==
    \/ into_iter
    \/ MachineIterator_next
    \/ from_str
    \/ from_str_again

SpecTwice == InitTwice /\ [][NextTwice]_vars

\* ------------------------------------------- single calls of the functions

\* Every state and every code point up to MaxCode.
InitT ==
    /\ tstate \in State
    /\ tsym \in 0..MaxCode
    /\ tclass = NoClasses
    /\ tout = Unset
    /\ input = <<>>
    /\ pos = 0
    /\ state = NoState
    /\ yielded = <<>>
    /\ ret = Unset
    /\ pc = "call"
    /\ result = Unset
    /\ local = <<>>
    /\ domain = <<>>
    /\ first = <<>>

\* The character classes c belongs to.
classes(c) ==
    { k \in { "atext", "qtext", "dtext", "escape" } :
        \/ k = "atext" /\ is_atext(c)
        \/ k = "qtext" /\ is_qtext(c)
        \/ k = "dtext" /\ is_dtext(c)
        \/ k = "escape" /\ is_escape(c) }

\* is_atext, is_qtext, is_dtext and is_escape of tsym.
classify ==
    /\ pc = "call"
    /\ tclass = NoClasses
    /\ tclass' = classes(tsym)
    /\ UNCHANGED << input, pos, state, yielded, ret, pc, result, local, domain,
                    tstate, tsym, tout, first >>

\* State::transition(tstate, tsym)
call_transition ==
    /\ pc = "call"
    /\ tout = Unset
    /\ tout' = transition(tstate, tsym)
    /\ UNCHANGED << input, pos, state, yielded, ret, pc, result, local, domain,
                    tstate, tsym, tclass, first >>

NextT ==
    \/ classify
    \/ call_transition

SpecT == InitT /\ [][NextT]_vars

\* ------------------------------------------------------------------ claims

\* The state the automaton was in when it consumed the i-th symbol.
StateBefore(i) ==
    IF i = 1 THEN start ELSE yielded[i - 1]

Returned == pc = "done"
Accepted == pc = "done" /\ result = "Ok"

\* C1 (as claimed): whenever a string validates, the '@' at which it is split
\* (the first '@') is the symbol on which the automaton entered LocalPart.
C1_SplitAtLocalPartEntry ==
    Accepted =>
        /\ Len(local) + 1 <= Len(input)
        /\ input[Len(local) + 1] = AT
        /\ yielded[Len(local) + 1] = LocalPart

\* C2 (as claimed): in a run that ends in an accepting state no '@' is
\* consumed while the state is LocalQText.
C2_NoAtConsumedInQText ==
    Accepted =>
        \A i \in 1..Len(input) : input[i] = AT => StateBefore(i) # LocalQText

\* C2 (amended): an '@' consumed in LocalQText is quoted text: the automaton
\* stays in LocalQText, and it enters LocalPart only on an '@' consumed in
\* LocalAtom or LocalQString.
C2_AtInQTextStaysQuoted ==
    \A i \in 1..Len(yielded) :
        /\ (input[i] = AT /\ StateBefore(i) = LocalQText) => yielded[i] = LocalQText
        /\ yielded[i] = LocalPart =>
               input[i] = AT /\ StateBefore(i) \in { LocalAtom, LocalQString }

C2_Witness ==
    /\ Accepted
    /\ \E i \in 1..Len(input) :
           input[i] = AT /\ StateBefore(i) = LocalQText /\ yielded[i] = LocalQText

\* The code points the grammar gives for DTEXT: %d33-90 / %d94-126.
DTEXT == (33..90) \cup (94..126)

\* local-part '@' '[' *DTEXT ']' with the local-part one the automaton takes.
IsLiteralAddress(s) ==
    \E k \in 2..(Len(s) - 2) :
        /\ s[k] = AT
        /\ yielded[k] = LocalPart
        /\ s[k + 1] = OPEN_BRACKET
        /\ s[Len(s)] = CLOSE_BRACKET
        /\ \A j \in (k + 2)..(Len(s) - 1) : s[j] \in DTEXT

\* C3 (as claimed): an address whose domain is '[' *DTEXT ']' after a valid
\* local-part and '@' validates, with the domain literal as its domain.
C3_DomainLiteralAccepted ==
    (Returned /\ IsLiteralAddress(input)) =>
        /\ result = "Ok"
        /\ domain = SubSeq(input, Len(local) + 2, Len(input))
        /\ domain[1] = OPEN_BRACKET

\* The code points the grammar gives for ATEXT: ALPHA, DIGIT and
\* ! # $ % & ' * + - / = ? ^ _ ` { | } ~
ATEXT ==
    (65..90) \cup (97..122) \cup (48..57)
        \cup { 33, 35, 36, 37, 38, 39, 42, 43, 45, 47, 61, 63, 94, 95, 96, 123, 124, 125, 126 }

\* C4 (as claimed): is_atext(c) is true exactly for the symbols of ATEXT, and
\* each of them keeps an atom going in LocalAtom and in DomainAtom.
C4_AtextIsGrammarAtext ==
    /\ tclass # NoClasses => ("atext" \in tclass <=> tsym \in ATEXT)
    /\ (tout # Unset /\ tsym \in ATEXT /\ tstate \in { LocalAtom, DomainAtom }) =>
           tout = tstate

\* C5: a non-empty input returns InvalidEmail exactly when the state after
\* its last symbol is neither DomainAtom nor DomainLiteral and a validated
\* address otherwise; is_final is true of those two states only; a local and
\* a domain are produced only on acceptance.
C5_ResultFollowsFinalState ==
    /\ \A q \in State : is_final(q) <=> q \in { DomainAtom, DomainLiteral }
    /\ (Returned /\ input # <<>>) =>
           /\ result = "InvalidEmail" <=>
                  yielded[Len(input)] \notin { DomainAtom, DomainLiteral }
           /\ result = "Ok" <=> yielded[Len(input)] \in { DomainAtom, DomainLiteral }
    /\ result # "Ok" => (local = <<>> /\ domain = <<>>)

C5_Witness ==
    /\ Returned
    /\ result = "InvalidEmail"
    /\ yielded[Len(input)] = DomainDot

\* C6: the empty string returns EmptyEmail with no state yielded, and no
\* other string does: a non-empty one returns Ok or InvalidEmail.
C6_EmptyIffEmptyInput ==
    Returned =>
        /\ result = "EmptyEmail" <=> input = <<>>
        /\ input = <<>> => yielded = <<>>
        /\ input # <<>> => result \in { "Ok", "InvalidEmail" }

C6_Witness ==
    /\ Returned
    /\ input = <<>>
    /\ result = "EmptyEmail"

\* C7: from_str never panics: it returns Ok, EmptyEmail or InvalidEmail, and
\* whenever the last state is final the input holds an '@'.
C7_NeverFaults ==
    /\ Returned => result \in { "Ok", "EmptyEmail", "InvalidEmail" }
    /\ (pc = "exhausted" /\ yielded # <<>> /\ is_final(yielded[Len(yielded)])) =>
           split_once(input, AT).some

C7_Witness ==
    /\ Accepted
    /\ split_once(input, AT).some
    /\ local \o <<AT>> \o domain = input

\* transition(Error, c) = Error for every code point c up to MaxCode.
ErrorAbsorbs ==
    \A c \in 0..MaxCode : transition(Error, c) = Error

\* C8: Error is absorbing: transition(Error, c) = Error for every c, every
\* state yielded after an Error is Error, and the result is then InvalidEmail.
\* (The first conjunct is a fact about transition alone: it is evaluated in
\* the initial state of the empty input, once, instead of in every state.)
C8_ErrorAbsorbing ==
    /\ (pc = "new" /\ input = <<>>) => ErrorAbsorbs
    /\ \A i \in 1..Len(yielded) : StateBefore(i) = Error => yielded[i] = Error
    /\ (Returned /\ \E i \in 1..Len(yielded) : yielded[i] = Error) =>
           result = "InvalidEmail"

C8_Witness ==
    /\ Returned
    /\ result = "InvalidEmail"
    /\ \E i \in 2..Len(yielded) :
           StateBefore(i) = Error /\ is_atext(input[i]) /\ yielded[i] = Error

\* transition(DomainLiteral, c) = Error for every code point c up to MaxCode.
DomainLiteralTerminal ==
    \A c \in 0..MaxCode : transition(DomainLiteral, c) = Error

\* C9: DomainLiteral is terminal: transition(DomainLiteral, c) = Error for
\* every c, so an input with a symbol after the one that reached
\* DomainLiteral returns InvalidEmail, as "a@[1]extra" does.
\* (The first conjunct is evaluated once, as in C8.)
C9_DomainLiteralTerminal ==
    /\ (pc = "new" /\ input = <<>>) => DomainLiteralTerminal
    /\ \A i \in 1..Len(yielded) : StateBefore(i) = DomainLiteral => yielded[i] = Error
    /\ (Returned /\ \E i \in 1..(Len(input) - 1) : yielded[i] = DomainLiteral) =>
           result = "InvalidEmail"
    /\ (Returned /\ input = Ex_literal_extra) => result = "InvalidEmail"

C9_Witness ==
    /\ Returned
    /\ result = "InvalidEmail"
    /\ \E i \in 1..(Len(input) - 1) :
           yielded[i] = DomainLiteral /\ is_atext(input[i + 1])

\* transition folded from state q over the string s.
RECURSIVE fold(_, _)
fold(q, s) ==
    IF s = <<>> THEN q ELSE fold(transition(q, Head(s)), Tail(s))

\* C10: the driver yields one state per symbol, the i-th being transition
\* folded from AddrSpec over the first i symbols; once the input is used up
\* next() returns None, yields nothing more and leaves the state as it is;
\* on the empty input it yields nothing.
C10_DriverYieldsFold ==
    /\ Len(yielded) = pos
    /\ pos <= Len(input)
    /\ \A i \in 1..Len(yielded) : yielded[i] = fold(AddrSpec, SubSeq(input, 1, i))
    /\ pc \in { "iter", "exhausted" } => state = fold(AddrSpec, SubSeq(input, 1, pos))
    /\ ret = None <=> pc \in { "exhausted", "done" }
    /\ pc \in { "exhausted", "done" } => Len(yielded) = Len(input)
    /\ ret \notin { None, Unset } => (pos >= 1 /\ ret = yielded[pos])

C10_Witness ==
    /\ pc = "exhausted"
    /\ ret = None
    /\ Len(input) = MaxLen
    /\ Len(yielded) = MaxLen
    /\ state = DomainAtom

\* Email::from_str as a function of the string: the iterator drained from
\* AddrSpec, last() of what it yields, then the value returned.
Email_from_str(s) ==
    from_str_value(s, IF s = <<>> THEN None ELSE fold(start, s))

\* C11: when s validates into (local, domain), the string local + "@" +
\* domain validates too.
C11_RoundTrip ==
    Accepted => Email_from_str(local \o <<AT>> \o domain).result = "Ok"

C11_Witness ==
    /\ Accepted
    /\ \E i \in 1..Len(local) : local[i] = DQUOTE
    /\ \E i \in 1..Len(domain) : domain[i] = AT
    /\ Email_from_str(local \o <<AT>> \o domain).result = "Ok"

\* The states that are reached only after the separating '@'.
AfterAt == { LocalPart, DomainAtom, DomainDText, DomainDot, DomainLiteral }

\* C12: a non-empty string without '@' returns InvalidEmail: until an '@' is
\* consumed the automaton is in none of LocalPart, DomainAtom, DomainDText,
\* DomainDot, DomainLiteral.
C12_NoAtIsInvalid ==
    /\ \A i \in 1..Len(yielded) :
           yielded[i] \in AfterAt => \E j \in 1..i : input[j] = AT
    /\ (Returned /\ input # <<>> /\ \A j \in 1..Len(input) : input[j] # AT) =>
           result = "InvalidEmail"

C12_Witness ==
    /\ Returned
    /\ input = Ex_plain
    /\ yielded[Len(input)] = LocalAtom
    /\ result = "InvalidEmail"

\* Space and horizontal tab.
WSP == { 32, 9 }

\* transition takes a space or a tab to a state other than Error only from
\* LocalEscape.
WspOnlyEscaped ==
    \A q \in State : \A c \in WSP : transition(q, c) # Error => q = LocalEscape

\* C13: a space or a tab is consumed without entering Error only in
\* LocalEscape, so an accepted address holds whitespace only as an escaped
\* character, and "a@b.com extra" returns InvalidEmail.
\* (The first conjunct is evaluated once, as in C8.)
C13_WhitespaceOnlyEscaped ==
    /\ (pc = "new" /\ input = <<>>) => WspOnlyEscaped
    /\ \A i \in 1..Len(yielded) :
           (input[i] \in WSP /\ yielded[i] # Error) => StateBefore(i) = LocalEscape
    /\ (Returned /\ \E i \in 1..Len(input) :
                        input[i] \in WSP /\ StateBefore(i) # LocalEscape) =>
           result = "InvalidEmail"
    /\ (Returned /\ input = Ex_trailing_space) => result = "InvalidEmail"

C13_Witness ==
    /\ Returned
    /\ input = Ex_trailing_space
    /\ yielded[7] = DomainAtom
    /\ input[8] = 32
    /\ yielded[8] = Error
    /\ result = "InvalidEmail"

\* s is (qtext / '\' escape)*
RECURSIVE QContent(_)
QContent(s) ==
    \/ s = <<>>
    \/ /\ is_qtext(Head(s))
       /\ QContent(Tail(s))
    \/ /\ Head(s) = BACKSLASH
       /\ Len(s) >= 2
       /\ is_escape(s[2])
       /\ QContent(SubSeq(s, 3, Len(s)))

\* s is '"' (qtext / '\' escape)* '"' '@' D with D a domain the automaton
\* accepts from LocalPart.
QuotedForm(s) ==
    \E k \in 2..(Len(s) - 2) :
        /\ s[1] = DQUOTE
        /\ s[k] = DQUOTE
        /\ QContent(SubSeq(s, 2, k - 1))
        /\ s[k + 1] = AT
        /\ is_final(fold(LocalPart, SubSeq(s, k + 2, Len(s))))

\* C14: a string that starts with '"' is accepted exactly when it has the
\* quoted form; "quoted"@example.com is accepted; an escaped '"' keeps the
\* quoted string open; after the closing quote only '@' is allowed.
C14_QuotedLocalPart ==
    /\ (Returned /\ input # <<>> /\ input[1] = DQUOTE) =>
           (result = "Ok" <=> QuotedForm(input))
    /\ (Returned /\ input = Ex_quoted) => result = "Ok"
    /\ \A i \in 1..Len(yielded) :
           /\ (StateBefore(i) = LocalEscape /\ input[i] = DQUOTE) =>
                  yielded[i] = LocalQText
           /\ (StateBefore(i) = LocalQString /\ yielded[i] # Error) => input[i] = AT

C14_Witness ==
    /\ Accepted
    /\ input = Pr_escaped_quote
    /\ yielded[2] = LocalEscape
    /\ yielded[3] = LocalQText
    /\ yielded[4] = LocalQString
    /\ QuotedForm(input)

\* C15: validation is deterministic: a second validation of the same string
\* goes through the same states and returns the same result as the first,
\* and either returns what from_str as a function of the string gives.
C15_SameStringSameResult ==
    /\ (Returned /\ first # <<>>) => first = << result, local, domain, yielded >>
    /\ Returned =>
           [result |-> result, local |-> local, domain |-> domain]
               = Email_from_str(input)
    /\ (first # <<>> /\ pc \in { "iter", "exhausted" }) =>
           yielded = SubSeq(first[4], 1, pos)

C15_Witness ==
    /\ Returned
    /\ first # <<>>
    /\ first[1] = "Ok"
    /\ result = "Ok"
    /\ Len(yielded) >= 4
    /\ first[4] = yielded

\* The symbols the grammar names: horizontal tab and 32..126.
Named == { 9 } \cup (32..126)

\* C16: transition returns a state for every state and symbol, and a symbol
\* other than 9 and 32..126 is in no character class and sends every state
\* to Error.
C16_TotalErrorOutsideGrammar ==
    /\ tout # Unset => tout \in State
    /\ (tout # Unset /\ tsym \notin Named) => tout = Error
    /\ (tclass # NoClasses /\ tsym \notin Named) => tclass = {}

C16_Witness ==
    /\ tstate = LocalEscape
    /\ tsym = 233
    /\ tclass = {}
    /\ tout = Error

\* C19: in every state at most one rule's guard holds of a symbol ('"', '.',
\* '@', '[' are not atext, '\' and '"' not qtext, ']' not dtext), so
\* transition returns the next state of the one rule that matches, or Error
\* when none does, whatever the order of the rules.
C19_GuardsDisjoint ==
    /\ (tclass # NoClasses /\ tsym \in { DQUOTE, DOT, AT, OPEN_BRACKET }) =>
           "atext" \notin tclass
    /\ (tclass # NoClasses /\ tsym \in { BACKSLASH, DQUOTE }) => "qtext" \notin tclass
    /\ (tclass # NoClasses /\ tsym = CLOSE_BRACKET) => "dtext" \notin tclass
    /\ tout # Unset =>
           /\ Cardinality(matching(tstate, tsym)) <= 1
           /\ matching(tstate, tsym) = {} => tout = Error
           /\ \A r \in matching(tstate, tsym) : tout = r[2]

C19_Witness ==
    /\ tstate = LocalAtom
    /\ tsym = DOT
    /\ tclass # NoClasses
    /\ "atext" \notin tclass
    /\ matching(tstate, tsym) = { << 1, LocalDot >> }
    /\ tout = LocalDot

\* s is atom ('.' atom)* with atom a non-empty run of is_atext symbols.
DotAtom(s) ==
    /\ s # <<>>
    /\ \A i \in 1..Len(s) : is_atext(s[i]) \/ s[i] = DOT
    /\ s[1] # DOT
    /\ s[Len(s)] # DOT
    /\ \A i \in 1..(Len(s) - 1) : ~(s[i] = DOT /\ s[i + 1] = DOT)

\* s is dot-atom '@' dot-atom.
DotAtomForm(s) ==
    \E k \in 1..Len(s) :
        /\ s[k] = AT
        /\ DotAtom(SubSeq(s, 1, k - 1))
        /\ DotAtom(SubSeq(s, k + 1, Len(s)))

\* C17: a string with neither '"' nor '[' is accepted exactly when it is
\* dot-atom '@' dot-atom; local is then the text before its one '@' and
\* domain the text after; "someone@example.com" gives "someone" and
\* "example.com".
C17_DotAtomPath ==
    /\ (Returned /\ \A i \in 1..Len(input) : input[i] \notin { DQUOTE, OPEN_BRACKET }) =>
           /\ result = "Ok" <=> DotAtomForm(input)
           /\ result = "Ok" =>
                  /\ Cardinality({ i \in 1..Len(input) : input[i] = AT }) = 1
                  /\ \E k \in 1..Len(input) :
                         /\ input[k] = AT
                         /\ local = SubSeq(input, 1, k - 1)
                         /\ domain = SubSeq(input, k + 1, Len(input))
    /\ (Returned /\ input = Ex_someone) =>
           /\ result = "Ok"
           /\ local = SubSeq(Ex_someone, 1, 7)
           /\ domain = SubSeq(Ex_someone, 9, 19)

C17_Witness ==
    /\ Accepted
    /\ input = Ex_someone
    /\ DotAtomForm(input)
    /\ Len(local) = 7
    /\ Len(domain) = 11

\* The states after the separating '@' has been consumed and the domain has
\* begun, and Error.
DomainPhase == { DomainAtom, DomainDText, DomainDot, DomainLiteral, Error }

\* C18: a run enters LocalPart at most once, only on '@' and only from
\* LocalAtom or LocalQString; every state after that is DomainAtom,
\* DomainDText, DomainDot, DomainLiteral or Error; AddrSpec is never entered.
C18_PhasesOrdered ==
    \A i \in 1..Len(yielded) :
        /\ yielded[i] # AddrSpec
        /\ yielded[i] = LocalPart =>
               /\ input[i] = AT
               /\ StateBefore(i) \in { LocalAtom, LocalQString }
               /\ \A j \in (i + 1)..Len(yielded) : yielded[j] \in DomainPhase

C18_Witness ==
    /\ Returned
    /\ \E i \in 1..Len(yielded) : \E j \in (i + 1)..Len(yielded) :
           /\ yielded[i] = LocalPart
           /\ yielded[j - 1] = DomainAtom
           /\ input[j] = AT
           /\ yielded[j] = Error

\* C20: when s validates, local and domain are not empty, local holds no
\* '@', and local + "@" + domain is s.
C20_PartsRebuildInput ==
    Accepted =>
        /\ local # <<>>
        /\ domain # <<>>
        /\ \A i \in 1..Len(local) : local[i] # AT
        /\ local \o <<AT>> \o domain = input

C20_Witness ==
    /\ Accepted
    /\ Len(local) = 1
    /\ local[1] = DQUOTE
    /\ Len(domain) = 3
    /\ domain[2] = AT

====
